---- MODULE Spec2Model ----
(***************************************************************************)
(* Expiry aggregation of react-expiry-app.                                 *)
(*                                                                         *)
(* Three feed variants live in the repository: the delimited-text feed     *)
(* (parseCSVAndAggregate), the JSON-array feed (parseJSONAndAggregate) and *)
(* the tabular feed served by the serverless handler (fetchSheetData,      *)
(* parseDateToTimestamp), whose records are aggregated by                  *)
(* parseJSONAndAggregate.                                                  *)
(*                                                                         *)
(* Text is a sequence of one-character strings.  A JavaScript value is a   *)
(* record tagged by its type.  Epoch timestamps are counted in minutes     *)
(* (one unit = 60000 ms): every timestamp of the pipelines is a whole      *)
(* number of minutes and TLC integers are 32 bits wide.                    *)
(***************************************************************************)
EXTENDS Integers, Sequences, FiniteSets, TLC

(***************************************************************************)
(* Bounds of the model.                                                    *)
(***************************************************************************)
MaxRows == 3
MaxSheetRows == 2

(***************************************************************************)
(* Text: characters, ordering by UTF-16 code unit, and the String methods  *)
(* the code uses.                                                          *)
(***************************************************************************)
Alphabet ==
    <<"\n", "\r", " ", ",", "-", "/",
      "0", "1", "2", "3", "4", "5", "6", "7", "8", "9",
      "A", "B", "C", "D", "E", "F", "G", "H", "I", "J", "K", "L", "M",
      "N", "O", "P", "Q", "R", "S", "T", "U", "V", "W", "X", "Y", "Z",
      "_",
      "a", "b", "c", "d", "e", "f", "g", "h", "i", "j", "k", "l", "m",
      "n", "o", "p", "q", "r", "s", "t", "u", "v", "w", "x", "y", "z">>

Code(c) == CHOOSE i \in 1..Len(Alphabet) : Alphabet[i] = c

Digits == <<"0", "1", "2", "3", "4", "5", "6", "7", "8", "9">>

IsDigit(c) == \E i \in 1..10 : Digits[i] = c

DigitVal(c) == (CHOOSE i \in 1..10 : Digits[i] = c) - 1

WhiteSpace == {" ", "\r", "\n"}

\* String.prototype.trim
RECURSIVE TrimLeft(_)
TrimLeft(s) ==
    IF s = <<>> THEN <<>>
    ELSE IF Head(s) \in WhiteSpace THEN TrimLeft(Tail(s)) ELSE s

RECURSIVE TrimRight(_)
TrimRight(s) ==
    IF s = <<>> THEN <<>>
    ELSE IF s[Len(s)] \in WhiteSpace THEN TrimRight(SubSeq(s, 1, Len(s) - 1))
    ELSE s

Trim(s) == TrimRight(TrimLeft(s))

\* String.prototype.includes for a one-character needle
Includes(s, c) == \E i \in 1..Len(s) : s[i] = c

\* String.prototype.split for a one-character separator: the parts between
\* consecutive occurrences of sep, empty parts included.
Split(s, sep) ==
    LET P == {i \in 1..Len(s) : s[i] = sep}
        n == Cardinality(P)
        pos(k) == CHOOSE p \in P : Cardinality({q \in P : q < p}) = k - 1
        first(k) == IF k = 1 THEN 1 ELSE pos(k - 1) + 1
        last(k) == IF k = n + 1 THEN Len(s) ELSE pos(k) - 1
    IN  [k \in 1..(n + 1) |-> SubSeq(s, first(k), last(k))]

\* Array.prototype.indexOf, zero based, -1 when absent
IndexOf(arr, x) ==
    IF \E i \in 1..Len(arr) : arr[i] = x
    THEN (CHOOSE i \in 1..Len(arr) :
              arr[i] = x /\ \A j \in 1..(i - 1) : arr[j] # x) - 1
    ELSE -1

\* Comparison of two strings by UTF-16 code units, as the default
\* comparator of Array.prototype.sort does.
RECURSIVE LexLess(_, _)
LexLess(a, b) ==
    IF b = <<>> THEN FALSE
    ELSE IF a = <<>> THEN TRUE
    ELSE IF Head(a) = Head(b) THEN LexLess(Tail(a), Tail(b))
    ELSE Code(Head(a)) < Code(Head(b))

\* The array left in insertion order
SortNone(arr) == arr

\* Array.prototype.sort() on an array of strings
SortStrings(arr) ==
    LET Before(j, i) == LexLess(arr[j], arr[i]) \/ (arr[j] = arr[i] /\ j < i)
        At(k) == CHOOSE i \in 1..Len(arr) :
                     Cardinality({j \in 1..Len(arr) : Before(j, i)}) = k - 1
    IN  [k \in 1..Len(arr) |-> arr[At(k)]]

\* slice without the upper limit
SliceAll(arr, n) == arr

\* Array.prototype.slice(0, n)
SliceTo(arr, n) == SubSeq(arr, 1, IF Len(arr) < n THEN Len(arr) ELSE n)

ArrayIncludes(arr, x) == \E i \in 1..Len(arr) : arr[i] = x

\* push in place of Set.prototype.add: no test for membership
SetAddDup(set, x) == Append(set, x)

\* Set.prototype.add on a set kept in insertion order

SetAdd(set, x) == IF ArrayIncludes(set, x) THEN set ELSE Append(set, x)

(***************************************************************************)
(* Text literals.                                                          *)
(***************************************************************************)
T_CE == <<"C", "E">>
T_PE == <<"P", "E">>
T_FUT == <<"F", "U", "T">>
T_NIFTY == <<"N", "I", "F", "T", "Y">>
T_BANKNIFTY == <<"B", "A", "N", "K">> \o T_NIFTY
T_SENSEX == <<"S", "E", "N", "S", "E", "X">>
T_FINIFTY == <<"F", "I">> \o T_NIFTY
T_MIDCPNIFTY == <<"M", "I", "D", "C", "P">> \o T_NIFTY
T_BANKEX == <<"B", "A", "N", "K", "E", "X">>
T_nifty == <<"n", "i", "f", "t", "y">>
T_instrument_type ==
    <<"i", "n", "s", "t", "r", "u", "m", "e", "n", "t", "_", "t", "y", "p", "e">>
T_underlying_symbol ==
    <<"u", "n", "d", "e", "r", "l", "y", "i", "n", "g", "_",
      "s", "y", "m", "b", "o", "l">>
T_expiry_date == <<"e", "x", "p", "i", "r", "y", "_", "d", "a", "t", "e">>
T_name == <<"n", "a", "m", "e">>
T_TBD == <<"T", "B", "D">>
NO_DATA == <<"N", "O", " ", "D", "A", "T", "A">>

\* The whitelists of the two front ends
ALLOWED_SYMBOLS_CSV == <<T_NIFTY, T_BANKNIFTY, T_SENSEX, T_FINIFTY>>

ALLOWED_SYMBOLS_JSON ==
    <<T_NIFTY, T_BANKNIFTY, T_SENSEX, T_FINIFTY, T_MIDCPNIFTY, T_BANKEX>>

(***************************************************************************)
(* formatDate: YYYY-MM-DD to DD-MM-YYYY, anything else unchanged.          *)
(***************************************************************************)
formatDate(dateString) ==
    LET parts == Split(dateString, "-")
    IN  IF Len(parts) = 3
        THEN parts[3] \o <<"-">> \o parts[2] \o <<"-">> \o parts[1]
        ELSE dateString

\* One result row
Row(symbol, text) == [Symbol |-> symbol, ExpiryDate |-> text]

\* The final loop of both aggregators: per whitelisted symbol, in declared
\* order, the first two sorted dates or one NO DATA row.
RECURSIVE FinalData(_, _, _)
FinalData(allowed, expiryMap, k) ==
    IF k > Len(allowed) THEN <<>>
    ELSE LET symbol == allowed[k]
             sortedDates == SortStrings(expiryMap[symbol])
             firstTwo == SliceTo(sortedDates, 2)
             rows == IF Len(firstTwo) = 0
                     THEN <<Row(symbol, NO_DATA)>>
                     ELSE [i \in 1..Len(firstTwo) |->
                               Row(symbol, formatDate(firstTwo[i]))]
         IN  rows \o FinalData(allowed, expiryMap, k + 1)

EmptyMap(allowed) == [s \in {allowed[i] : i \in 1..Len(allowed)} |-> <<>>]

(***************************************************************************)
(* parseCSVAndAggregate                                                    *)
(***************************************************************************)
\* The cell read without trim()
CellNoTrim(row, idx) ==
    IF idx >= 0 /\ idx + 1 <= Len(row) THEN row[idx + 1] ELSE <<>>

\* row[idx] ? row[idx].trim() : ''
Cell(row, idx) ==
    IF idx >= 0 /\ idx + 1 <= Len(row) /\ row[idx + 1] # <<>>
    THEN Trim(row[idx + 1])
    ELSE <<>>

\* The header test with && in place of ||
HeadersMissingAll(idxInst, idxSym, idxExp) ==
    idxInst = -1 /\ idxSym = -1 /\ idxExp = -1

\* idx_instrument_type === -1 || idx_underlying === -1 || idx_expiry === -1
HeadersMissing(idxInst, idxSym, idxExp) ==
    idxInst = -1 \/ idxSym = -1 \/ idxExp = -1

\* The loop over the data rows i..Len(rows), threading expiryMap
RECURSIVE CsvLoop(_, _, _, _, _, _)
CsvLoop(rows, i, idxInst, idxSym, idxExp, expiryMap) ==
    IF i > Len(rows) THEN expiryMap
    ELSE LET row == Split(rows[i], ",")
             inst == Cell(row, idxInst)
             symbol == Cell(row, idxSym)
             expiry == Cell(row, idxExp)
             next == IF /\ (inst = T_CE \/ inst = T_PE)
                        /\ ArrayIncludes(ALLOWED_SYMBOLS_CSV, symbol)
                        /\ expiry # <<>>
                     THEN [expiryMap EXCEPT ![symbol] = SetAdd(@, expiry)]
                     ELSE expiryMap
         IN  CsvLoop(rows, i + 1, idxInst, idxSym, idxExp, next)

parseCSVAndAggregate(csvText) ==
    LET rows == SelectSeq(Split(csvText, "\n"), LAMBDA row : Trim(row) # <<>>)
    IN  IF Len(rows) < 2 THEN <<>>
        ELSE
        LET hs == Split(rows[1], ",")
            headers == [i \in 1..Len(hs) |-> Trim(hs[i])]
            idx_instrument_type == IndexOf(headers, T_instrument_type)
            idx_underlying == IndexOf(headers, T_underlying_symbol)
            idx_expiry == IndexOf(headers, T_expiry_date)
        IN  IF HeadersMissing(idx_instrument_type, idx_underlying, idx_expiry)
            THEN <<>>
            ELSE FinalData(ALLOWED_SYMBOLS_CSV,
                           CsvLoop(rows, 2, idx_instrument_type, idx_underlying,
                                   idx_expiry, EmptyMap(ALLOWED_SYMBOLS_CSV)),
                           1)

\* expiryMap as the loop of parseCSVAndAggregate leaves it (before the final
\* loop reads it); the empty map when the function returns early
csvExpiryMap(csvText) ==
    LET rows == SelectSeq(Split(csvText, "\n"), LAMBDA row : Trim(row) # <<>>)
    IN  IF Len(rows) < 2 THEN EmptyMap(ALLOWED_SYMBOLS_CSV)
        ELSE
        LET hs == Split(rows[1], ",")
            headers == [i \in 1..Len(hs) |-> Trim(hs[i])]
            idx_instrument_type == IndexOf(headers, T_instrument_type)
            idx_underlying == IndexOf(headers, T_underlying_symbol)
            idx_expiry == IndexOf(headers, T_expiry_date)
        IN  IF HeadersMissing(idx_instrument_type, idx_underlying, idx_expiry)
            THEN EmptyMap(ALLOWED_SYMBOLS_CSV)
            ELSE CsvLoop(rows, 2, idx_instrument_type, idx_underlying,
                         idx_expiry, EmptyMap(ALLOWED_SYMBOLS_CSV))

(***************************************************************************)
(* JavaScript values and the conversions the code applies to them.         *)
(***************************************************************************)
Undef == [t |-> "undefined"]
Null == [t |-> "null"]
NaN == [t |-> "nan"]
Num(n) == [t |-> "number", n |-> n]
Str(s) == [t |-> "string", s |-> s]
Arr(a) == [t |-> "array", a |-> a]

\* ToBoolean: undefined, null, NaN, 0 and "" are falsy
Truthy(v) ==
    CASE v.t = "undefined" -> FALSE
      [] v.t = "null" -> FALSE
      [] v.t = "nan" -> FALSE
      [] v.t = "number" -> v.n # 0
      [] v.t = "string" -> v.s # <<>>
      [] OTHER -> TRUE

RECURSIVE DecimalValue(_, _)
DecimalValue(s, acc) ==
    IF s = <<>> THEN acc
    ELSE DecimalValue(Tail(s), 10 * acc + DigitVal(Head(s)))

\* ToNumber of a string: surrounding white space is ignored, the empty
\* string is 0, a run of decimal digits is its value, other text is NaN.
StringToNumber(s) ==
    LET t == Trim(s)
    IN  IF t = <<>> THEN Num(0)
        ELSE IF \A i \in 1..Len(t) : IsDigit(t[i]) THEN Num(DecimalValue(t, 0))
        ELSE NaN

\* Number(value)
ToNumber(v) ==
    CASE v.t = "number" -> v
      [] v.t = "string" -> StringToNumber(v.s)
      [] v.t = "null" -> Num(0)
      [] OTHER -> NaN

\* String(n) for an integer n
RECURSIVE NatToString(_)
NatToString(n) ==
    IF n < 10 THEN <<Digits[n + 1]>>
    ELSE NatToString(n \div 10) \o <<Digits[(n % 10) + 1]>>

NumberToString(n) == IF n < 0 THEN <<"-">> \o NatToString(-n) ELSE NatToString(n)

\* String.prototype.padStart(len, '0')
RECURSIVE PadStart(_, _)
PadStart(s, len) == IF Len(s) >= len THEN s ELSE PadStart(<<"0">> \o s, len)

(***************************************************************************)
(* Date: the proleptic Gregorian calendar of ECMAScript, local time being  *)
(* UTC plus tz minutes.                                                    *)
(***************************************************************************)
MinutesPerDay == 1440

\* Day number (days since 1970-01-01) of year y, month m (1..12), day d
DaysFromCivil(y, m, d) ==
    LET yy == IF m <= 2 THEN y - 1 ELSE y
        era == yy \div 400
        yoe == yy - era * 400
        mp == (m + 9) % 12
        doy == (153 * mp + 2) \div 5 + d - 1
        doe == yoe * 365 + yoe \div 4 - yoe \div 100 + doy
    IN  era * 146097 + doe - 719468

\* <<year, month (1..12), day>> of a day number
CivilFromDays(z) ==
    LET zz == z + 719468
        era == zz \div 146097
        doe == zz - era * 146097
        yoe == (doe - doe \div 1460 + doe \div 36524 - doe \div 146096) \div 365
        doy == doe - (365 * yoe + yoe \div 4 - yoe \div 100)
        mp == (5 * doy + 2) \div 153
        d == doy - (153 * mp + 2) \div 5 + 1
        m == IF mp < 10 THEN mp + 3 ELSE mp - 9
        y == yoe + era * 400 + (IF m <= 2 THEN 1 ELSE 0)
    IN  <<y, m, d>>

\* new Date(year, monthIndex, day).getTime(): NaN when an argument is NaN;
\* a year 0..99 means 1900 + year; month and day out of range roll over.
NewDateYMD(year, monthIndex, day, tz) ==
    IF year.t = "nan" \/ monthIndex.t = "nan" \/ day.t = "nan" THEN NaN
    ELSE LET yr == IF 0 <= year.n /\ year.n <= 99 THEN 1900 + year.n ELSE year.n
             ym == yr + (monthIndex.n \div 12)
             mn == monthIndex.n % 12
             dayNumber == DaysFromCivil(ym, mn + 1, 1) + day.n - 1
         IN  Num(dayNumber * MinutesPerDay - tz)

\* The UTC getters in place of the local ones
UTCYMD(ts, tz) == CivilFromDays(ts \div MinutesPerDay)

\* <<getFullYear(), getMonth() + 1, getDate()>> of new Date(ts)
LocalYMD(ts, tz) == CivilFromDays((ts + tz) \div MinutesPerDay)

(***************************************************************************)
(* timestampToYYYYMMDD                                                     *)
(***************************************************************************)
timestampToYYYYMMDD(timestamp, tz) ==
    IF ~Truthy(timestamp) THEN Null
    ELSE LET n == ToNumber(timestamp)
         IN  IF n.t = "nan" THEN Null
             ELSE LET ymd == LocalYMD(n.n, tz)
                      yyyy == NumberToString(ymd[1])
                      mm == PadStart(NumberToString(ymd[2]), 2)
                      dd == PadStart(NumberToString(ymd[3]), 2)
                  IN  Str(yyyy \o <<"-">> \o mm \o <<"-">> \o dd)

(***************************************************************************)
(* parseJSONAndAggregate                                                   *)
(***************************************************************************)
\* row.field ? row.field.trim() : ''
Field(v) == IF Truthy(v) THEN Trim(v.s) ELSE <<>>

RECURSIVE JsonLoop(_, _, _, _)
JsonLoop(data, i, tz, expiryMap) ==
    IF i > Len(data) THEN expiryMap
    ELSE LET row == data[i]
             inst == Field(row.instrument_type)
             symbol == Field(row.underlying_symbol)
             expiryTimestamp == row.expiry
             expiryDateString == timestampToYYYYMMDD(expiryTimestamp, tz)
             next == IF /\ (inst = T_CE \/ inst = T_PE)
                        /\ ArrayIncludes(ALLOWED_SYMBOLS_JSON, symbol)
                        /\ Truthy(expiryDateString)
                     THEN [expiryMap EXCEPT
                               ![symbol] = SetAdd(@, expiryDateString.s)]
                     ELSE expiryMap
         IN  JsonLoop(data, i + 1, tz, next)

parseJSONAndAggregate(instrumentData, tz) ==
    IF instrumentData.t # "array" THEN <<>>
    ELSE FinalData(ALLOWED_SYMBOLS_JSON,
                   JsonLoop(instrumentData.a, 1, tz,
                            EmptyMap(ALLOWED_SYMBOLS_JSON)),
                   1)

\* expiryMap as the loop of parseJSONAndAggregate leaves it
jsonExpiryMap(instrumentData, tz) ==
    IF instrumentData.t # "array" THEN EmptyMap(ALLOWED_SYMBOLS_JSON)
    ELSE JsonLoop(instrumentData.a, 1, tz, EmptyMap(ALLOWED_SYMBOLS_JSON))

(***************************************************************************)
(* parseDateToTimestamp                                                    *)
(***************************************************************************)
parseDateToTimestamp(dateString, tz) ==
    IF ~Truthy(dateString) THEN 0
    ELSE
    LET s == dateString.s
        dateParts ==
            IF Includes(s, "-") THEN Split(s, "-")
            ELSE IF Includes(s, "/") THEN Split(s, "/")
            ELSE IF Len(s) = 8
                 THEN <<SubSeq(s, 1, 4), SubSeq(s, 5, 6), SubSeq(s, 7, 8)>>
                 ELSE <<>>
    IN  IF Len(dateParts) # 3 THEN 0
        ELSE
        LET yearFirst == Len(dateParts[1]) = 4
            year == IF yearFirst THEN dateParts[1] ELSE dateParts[3]
            month == dateParts[2]
            day == IF yearFirst THEN dateParts[3] ELSE dateParts[1]
            monthNum == StringToNumber(month)
            monthIndex == IF monthNum.t = "nan" THEN NaN ELSE Num(monthNum.n - 1)
            time == NewDateYMD(StringToNumber(year), monthIndex,
                               StringToNumber(day), tz)
        IN  IF time.t = "nan" THEN 0 ELSE time.n

(***************************************************************************)
(* fetchSheetData and the serverless handler                               *)
(***************************************************************************)
\* One record of the handler's answer
Instrument(symbol, timestamp, kind) ==
    [underlying_symbol |-> Str(symbol), expiry |-> Num(timestamp),
     instrument_type |-> Str(kind)]

\* The mapping without the flatMap that adds the PE record
RECURSIVE AugmentOnce(_, _)
AugmentOnce(rows, tz) ==
    IF rows = <<>> THEN <<>>
    ELSE LET row == Head(rows)
         IN  (IF Truthy(row.Symbol) /\ Truthy(row.ExpiryDate)
              THEN <<Instrument(Trim(row.Symbol.s),
                                parseDateToTimestamp(row.ExpiryDate, tz), T_CE)>>
              ELSE <<>>)
             \o AugmentOnce(Tail(rows), tz)

\* rows.filter(...).map(...).flatMap(...): each row with both cells filled
\* becomes a CE and a PE record
RECURSIVE Augment(_, _)
Augment(rows, tz) ==
    IF rows = <<>> THEN <<>>
    ELSE LET row == Head(rows)
             item == Instrument(Trim(row.Symbol.s),
                                parseDateToTimestamp(row.ExpiryDate, tz), T_CE)
         IN  (IF Truthy(row.Symbol) /\ Truthy(row.ExpiryDate)
              THEN <<[item EXCEPT !.instrument_type = Str(T_CE)],
                     [item EXCEPT !.instrument_type = Str(T_PE)]>>
              ELSE <<>>)
             \o Augment(Tail(rows), tz)

\* The credentials test with && in place of ||
CredentialsMissingAll(env) ==
    /\ ~Truthy(env.SHEET_ID)
    /\ ~Truthy(env.CLIENT_EMAIL)
    /\ ~Truthy(env.PRIVATE_KEY)

\* The credentials test that opens fetchSheetData
CredentialsMissing(env) ==
    \/ ~Truthy(env.SHEET_ID)
    \/ ~Truthy(env.CLIENT_EMAIL)
    \/ ~Truthy(env.PRIVATE_KEY)

\* fetchSheetData: the records returned and whether the sheet was contacted;
\* reachable says whether authentication and the reads succeed.
fetchSheetData(env, rows, reachable, tz) ==
    IF CredentialsMissing(env) THEN [data |-> <<>>, contacted |-> FALSE]
    ELSE IF ~reachable THEN [data |-> <<>>, contacted |-> TRUE]
    ELSE [data |-> Augment(rows, tz), contacted |-> TRUE]

T_GET == <<"G", "E", "T">>
T_POST == <<"P", "O", "S", "T">>

\* handler(req, res): the status and body answered, and whether the sheet
\* was contacted
handler(method, env, rows, reachable, tz) ==
    IF method # T_GET
    THEN [status |-> 405, body |-> Undef, contacted |-> FALSE]
    ELSE LET fetched == fetchSheetData(env, rows, reachable, tz)
         IN  [status |-> 200, body |-> Arr(fetched.data),
              contacted |-> fetched.contacted]

(***************************************************************************)
(* Inputs.  A feed is built from input records: the raw fields that go     *)
(* into the payload together with the calendar date the raw expiry stands  *)
(* for (NoDate when it stands for none).                                   *)
(***************************************************************************)
NoDate == <<>>
D1 == <<2025, 11, 25>>
D2 == <<2025, 12, 2>>
D3 == <<2025, 12, 30>>
D4 == <<2026, 1, 15>>

\* Chronological order of two <<year, month, day>> dates
DateLess(a, b) ==
    \/ a[1] < b[1]
    \/ a[1] = b[1] /\ a[2] < b[2]
    \/ a[1] = b[1] /\ a[2] = b[2] /\ a[3] < b[3]

Pad(n, len) == PadStart(NatToString(n), len)

\* The texts of a date
ISO(d) == Pad(d[1], 4) \o <<"-">> \o Pad(d[2], 2) \o <<"-">> \o Pad(d[3], 2)
DMY(d, sep) == Pad(d[3], 2) \o <<sep>> \o Pad(d[2], 2) \o <<sep>> \o Pad(d[1], 4)
Compact(d) == Pad(d[1], 4) \o Pad(d[2], 2) \o Pad(d[3], 2)

\* Epoch value of the start of date d in the zone tz minutes east of UTC
LocalMidnight(d, z) == DaysFromCivil(d[1], d[2], d[3]) * MinutesPerDay - z

\* Zones: New York (winter), UTC, India
TZs == {-300, 0, 330}

CsvIn(inst, sym, exp, date) ==
    [inst |-> inst, sym |-> sym, exp |-> exp, date |-> date]

CsvRowInputs ==
    { CsvIn(T_CE, T_NIFTY, ISO(D1), D1),
      CsvIn(T_PE, T_NIFTY, ISO(D1), D1),
      CsvIn(T_CE, T_NIFTY, ISO(D3), D3),
      CsvIn(T_PE, T_NIFTY, ISO(D2), D2),
      CsvIn(T_CE, T_NIFTY, DMY(D1, "-"), D1),
      CsvIn(T_PE, T_NIFTY, DMY(D2, "-"), D2),
      CsvIn(T_CE, T_BANKNIFTY, ISO(D2), D2),
      CsvIn(T_CE, T_NIFTY, <<"0">>, NoDate),
      CsvIn(<<" ">> \o T_PE, T_NIFTY \o <<" ">>, <<>>, NoDate),
      CsvIn(T_FUT, T_NIFTY, ISO(D4), D4),
      CsvIn(T_CE, T_nifty, ISO(D1), D1),
      CsvIn(<<" ">> \o T_CE, T_NIFTY \o <<" ">>, <<" ">> \o ISO(D4), D4) }

\* Header layouts of the delimited-text feed: the standard one, one with an
\* extra column, another order and padding, three that lack one required
\* column, and a payload without any line.
Layouts == {"std", "wide", "noinst", "nosym", "noexp", "none"}

Join3(a, b, c) == a \o <<",">> \o b \o <<",">> \o c

HeaderText(l) ==
    CASE l = "std" -> Join3(T_instrument_type, T_underlying_symbol, T_expiry_date)
      [] l = "wide" ->
            T_name \o <<",", " ">> \o T_expiry_date \o <<" ", ",">>
            \o T_underlying_symbol \o <<",">> \o T_instrument_type \o <<"\r">>
      [] l = "noinst" -> Join3(T_name, T_underlying_symbol, T_expiry_date)
      [] l = "nosym" -> Join3(T_instrument_type, T_name, T_expiry_date)
      [] l = "noexp" -> Join3(T_instrument_type, T_underlying_symbol, T_name)
      [] OTHER -> <<>>

LineText(l, r) ==
    IF l = "wide"
    THEN <<"x", ",">> \o Join3(r.exp, r.sym, r.inst) \o <<"\r">>
    ELSE Join3(r.inst, r.sym, r.exp)

HeaderComplete(l) == l \in {"std", "wide"}

JsonIn(inst, sym, expiry, date) ==
    [instrument_type |-> inst, underlying_symbol |-> sym, expiry |-> expiry,
     date |-> date]

JsonRowInputs(z) ==
    { JsonIn(Str(T_CE), Str(T_NIFTY), Num(LocalMidnight(D1, z)), D1),
      JsonIn(Str(T_PE), Str(T_NIFTY), Num(LocalMidnight(D1, z)), D1),
      JsonIn(Str(T_PE), Str(T_NIFTY), Num(LocalMidnight(D1, z) + 930), D1),
      JsonIn(Str(T_CE), Str(T_NIFTY), Num(LocalMidnight(D3, z)), D3),
      JsonIn(Str(T_PE), Str(T_NIFTY),
             Str(NatToString(LocalMidnight(D2, z))), D2),
      JsonIn(Str(T_CE), Str(T_BANKEX), Num(LocalMidnight(D4, z)), D4),
      JsonIn(Str(T_CE), Str(T_NIFTY), Num(0), NoDate),
      JsonIn(Str(T_CE), Str(T_NIFTY), Str(<<"0">>), NoDate),
      JsonIn(Str(T_PE), Str(T_NIFTY), Undef, NoDate),
      JsonIn(Undef, Str(T_NIFTY), Num(LocalMidnight(D4, z)), D4),
      JsonIn(Str(T_CE), Str(T_nifty), Num(LocalMidnight(D1, z)), D1),
      JsonIn(Str(<<" ">> \o T_PE), Str(T_NIFTY \o <<" ">>), Str(T_TBD), NoDate) }

\* The object handed to parseJSONAndAggregate for an input record
JsonRow(r) ==
    [instrument_type |-> r.instrument_type,
     underlying_symbol |-> r.underlying_symbol, expiry |-> r.expiry]

NotAnArray == [t |-> "object"]

SheetIn(sym, exp, date) == [Symbol |-> sym, ExpiryDate |-> exp, date |-> date]

SheetRowInputs ==
    { SheetIn(Str(T_BANKEX), Str(DMY(D4, "/")), D4),
      SheetIn(Str(T_BANKEX), Str(DMY(D4, "-")), D4),
      SheetIn(Str(<<" ">> \o T_BANKEX), Str(ISO(D3)), D3),
      SheetIn(Str(T_NIFTY), Str(Compact(D1)), D1),
      SheetIn(Str(T_NIFTY), Str(ISO(D4)), D4),
      SheetIn(Str(T_NIFTY), Str(T_TBD), NoDate),
      SheetIn(Str(T_NIFTY), Str(<<"0">>), NoDate),
      SheetIn(Str(T_BANKEX), Str(<<>>), NoDate),
      SheetIn(Undef, Str(ISO(D2)), D2) }

SheetRow(r) == [Symbol |-> r.Symbol, ExpiryDate |-> r.ExpiryDate]

Credential == {Undef, Str(<<"k">>)}

Envs == [SHEET_ID : Credential, CLIENT_EMAIL : Credential, PRIVATE_KEY : Credential]

NoEnv == [SHEET_ID |-> Undef, CLIENT_EMAIL |-> Undef, PRIVATE_KEY |-> Undef]

NoResponse == [status |-> 0, body |-> Undef]

\* The forms of one date given to the normalizer
Forms == {"iso", "dmy-dash", "dmy-slash", "epoch"}

FormValue(f, d, z) ==
    CASE f = "iso" -> Str(ISO(d))
      [] f = "dmy-dash" -> Str(DMY(d, "-"))
      [] f = "dmy-slash" -> Str(DMY(d, "/"))
      [] OTHER -> Num(LocalMidnight(d, z))

NormDates == {D1, D2, D3, D4, <<2024, 2, 29>>, <<2025, 1, 1>>, <<2025, 12, 31>>}

\* <<year, month, day>> triples that are no calendar date
BadTriples == {<<2025, 2, 30>>, <<2025, 4, 31>>, <<2025, 13, 1>>, <<2025, 2, 29>>}

DaysInMonth(y, m) ==
    IF m \in {4, 6, 9, 11} THEN 30
    ELSE IF m = 2
         THEN (IF (y % 4 = 0 /\ y % 100 # 0) \/ y % 400 = 0 THEN 29 ELSE 28)
         ELSE 31

\* The triple denotes a real calendar date
RealDate(d) == d[2] \in 1..12 /\ d[3] \in 1..DaysInMonth(d[1], d[2])

(***************************************************************************)
(* State.                                                                  *)
(***************************************************************************)
VARIABLES
    variant,        \* which deployment: "csv", "json", "sheet" or "norm"
    tz,             \* local zone of the process, minutes east of UTC
    layout,         \* header layout of the delimited-text payload
    csvText,        \* the delimited-text payload
    instrumentData, \* the value handed to parseJSONAndAggregate
    fed,            \* the input records the payload was built from
    env,            \* the three credentials of the tabular source
    sheet,          \* the rows of the first sheet
    sheetUp,        \* whether authentication and the reads of the sheet succeed
    req,            \* the method of the request the handler answered
    contacted,      \* whether the sheet service has been contacted
    res,            \* the handler's answer
    finalData,      \* the result of the aggregation run
    normDate,       \* the date whose forms are normalized
    normalized,     \* the forms normalized so far with key and display text
    pc,             \* "feed", "served" or "done"
    lifecycle,      \* of ExpiryDataFetcher: "none", "new", "mounted", "unmounted"
    timerOn,        \* whether the interval set by the effect is active
    data,           \* useState: the stored result
    loading,        \* useState: the "currently fetching" flag
    error,          \* useState: the error message
    lastRefreshTime,\* useState: time of the last successful refresh
    runs,           \* the fetchData runs started so far
    completed       \* the runs whose continuation has run, in that order

vars == <<variant, tz, layout, csvText, instrumentData, fed, env, sheet,
          sheetUp, req, contacted, res, finalData, normDate, normalized, pc,
          lifecycle, timerOn, data, loading, error, lastRefreshTime, runs,
          completed>>

\* The state of the component
ui == <<lifecycle, timerOn, data, loading, error, lastRefreshTime, runs,
        completed>>

\* The state of the feed, of the handler and of the normalizer
feed == <<layout, csvText, instrumentData, fed, env, sheet, sheetUp, req,
          contacted, res, finalData, normDate, normalized, pc>>

\* No component is rendered
NoComponent ==
    /\ lifecycle = "none" /\ timerOn = FALSE
    /\ data = Null /\ loading = FALSE /\ error = Null /\ lastRefreshTime = Null
    /\ runs = <<>> /\ completed = <<>>

Base ==
    /\ fed = <<>>
    /\ req = <<>>
    /\ contacted = FALSE
    /\ res = NoResponse
    /\ finalData = <<>>
    /\ normalized = {}
    /\ pc = "feed"

InitCsv ==
    /\ variant = "csv" /\ tz = 0
    /\ layout \in Layouts /\ csvText = HeaderText(layout)
    /\ instrumentData = Undef /\ env = NoEnv /\ sheet = <<>> /\ sheetUp = FALSE
    /\ normDate = NoDate

InitJson ==
    /\ variant = "json" /\ tz \in TZs
    /\ layout = "none" /\ csvText = <<>>
    /\ instrumentData \in {Arr(<<>>), NotAnArray}
    /\ env = NoEnv /\ sheet = <<>> /\ sheetUp = FALSE /\ normDate = NoDate

InitSheet ==
    /\ variant = "sheet" /\ tz \in TZs
    /\ layout = "none" /\ csvText = <<>>
    /\ instrumentData = Undef
    /\ env \in Envs /\ sheet = <<>> /\ sheetUp \in BOOLEAN /\ normDate = NoDate

InitNorm ==
    /\ variant = "norm" /\ tz \in TZs
    /\ layout = "none" /\ csvText = <<>>
    /\ instrumentData = Undef /\ env = NoEnv /\ sheet = <<>> /\ sheetUp = FALSE
    /\ normDate \in NormDates \cup BadTriples

Init == Base /\ NoComponent /\ (InitCsv \/ InitJson \/ InitSheet \/ InitNorm)

(***************************************************************************)
(* Delimited-text variant.                                                 *)
(***************************************************************************)
\* The feed gains one line
CsvAppendRow(r) ==
    /\ variant = "csv" /\ pc = "feed" /\ layout # "none"
    /\ Len(fed) < MaxRows
    /\ csvText' = csvText \o <<"\n">> \o LineText(layout, r)
    /\ fed' = Append(fed, r)
    /\ UNCHANGED ui
    /\ UNCHANGED <<variant, tz, layout, instrumentData, env, sheet, sheetUp, contacted,
                   res, finalData, normDate, normalized, pc, req>>

\* const finalData = parseCSVAndAggregate(csvText)
CsvAggregate ==
    /\ variant = "csv" /\ pc = "feed"
    /\ finalData' = parseCSVAndAggregate(csvText)
    /\ pc' = "done"
    /\ UNCHANGED ui
    /\ UNCHANGED <<variant, tz, layout, csvText, instrumentData, fed, env,
                   sheet, sheetUp, contacted, res, normDate, normalized, req>>

(***************************************************************************)
(* JSON-array variant.                                                     *)
(***************************************************************************)
JsonAppendRow(r) ==
    /\ variant = "json" /\ pc = "feed" /\ instrumentData.t = "array"
    /\ Len(fed) < MaxRows
    /\ instrumentData' = Arr(Append(instrumentData.a, JsonRow(r)))
    /\ fed' = Append(fed, r)
    /\ UNCHANGED ui
    /\ UNCHANGED <<variant, tz, layout, csvText, env, sheet, sheetUp, contacted, res,
                   finalData, normDate, normalized, pc, req>>

\* const finalData = parseJSONAndAggregate(instrumentData)
JsonAggregate ==
    /\ variant = "json" /\ pc = "feed"
    /\ finalData' = parseJSONAndAggregate(instrumentData, tz)
    /\ pc' = "done"
    /\ UNCHANGED ui
    /\ UNCHANGED <<variant, tz, layout, csvText, instrumentData, fed, env,
                   sheet, sheetUp, contacted, res, normDate, normalized, req>>

(***************************************************************************)
(* Tabular variant: the sheet, the handler, and the aggregation of the     *)
(* handler's answer.                                                       *)
(***************************************************************************)
SheetAppendRow(r) ==
    /\ variant = "sheet" /\ pc = "feed"
    /\ Len(fed) < MaxSheetRows
    /\ sheet' = Append(sheet, SheetRow(r))
    /\ fed' = Append(fed, r)
    /\ UNCHANGED ui
    /\ UNCHANGED <<variant, tz, layout, csvText, instrumentData, env, contacted,
                   res, finalData, normDate, normalized, pc, sheetUp, req>>

\* One request to the handler
HandlerRequest(method) ==
    /\ variant = "sheet" /\ pc = "feed"
    /\ req' = method
    /\ LET out == handler(method, env, sheet, sheetUp, tz)
       IN  /\ res' = [status |-> out.status, body |-> out.body]
           /\ contacted' = out.contacted
    /\ pc' = "served"
    /\ UNCHANGED ui
    /\ UNCHANGED <<variant, tz, layout, csvText, instrumentData, fed, env,
                   sheet, sheetUp, finalData, normDate, normalized>>

\* The front end aggregates the body of a 200 answer
SheetAggregate ==
    /\ variant = "sheet" /\ pc = "served" /\ res.status = 200
    /\ instrumentData' = res.body
    /\ finalData' = parseJSONAndAggregate(res.body, tz)
    /\ pc' = "done"
    /\ UNCHANGED ui
    /\ UNCHANGED <<variant, tz, layout, csvText, fed, env, sheet, sheetUp, contacted,
                   res, normDate, normalized, req>>

(***************************************************************************)
(* The date normalizer applied to the forms of one date: text goes through *)
(* parseDateToTimestamp, and every timestamp through timestampToYYYYMMDD   *)
(* and formatDate.                                                         *)
(***************************************************************************)
SortKey(v, z) == IF v.t = "string" THEN Num(parseDateToTimestamp(v, z)) ELSE v

DisplayText(key, z) ==
    LET ymd == timestampToYYYYMMDD(key, z)
    IN  IF Truthy(ymd) THEN formatDate(ymd.s) ELSE NO_DATA

Normalize(f) ==
    /\ variant = "norm"
    /\ f = "epoch" => RealDate(normDate)
    /\ \A n \in normalized : n.form # f
    /\ LET key == SortKey(FormValue(f, normDate, tz), tz)
       IN  normalized' = normalized \cup
               {[form |-> f, key |-> key, text |-> DisplayText(key, tz)]}
    /\ UNCHANGED ui
    /\ UNCHANGED <<variant, tz, layout, csvText, instrumentData, fed, env,
                   sheet, sheetUp, contacted, res, finalData, normDate, pc, req>>

Next ==
    \/ \E r \in CsvRowInputs : CsvAppendRow(r)
    \/ CsvAggregate
    \/ \E r \in JsonRowInputs(tz) : JsonAppendRow(r)
    \/ JsonAggregate
    \/ \E r \in SheetRowInputs : SheetAppendRow(r)
    \/ \E m \in {T_GET, T_POST} : HandlerRequest(m)
    \/ SheetAggregate
    \/ \E f \in Forms : Normalize(f)

Spec == Init /\ [][Next]_vars

(***************************************************************************)
(* Vocabulary of the properties: what the input records say, independently *)
(* of the code that reads the payload.                                     *)
(***************************************************************************)
Done == pc = "done"

Allowed == IF variant = "csv" THEN ALLOWED_SYMBOLS_CSV ELSE ALLOWED_SYMBOLS_JSON

AllowedSet == {Allowed[k] : k \in 1..Len(Allowed)}

\* The payload passes the structural test of its aggregator: two or more
\* non-blank lines under a header with the three required columns, or an
\* array.
Structured ==
    CASE variant = "csv" -> HeaderComplete(layout) /\ Len(fed) >= 1
      [] variant = "json" -> instrumentData.t = "array"
      [] OTHER -> TRUE

\* The trimmed symbol of an input record
InSymbol(r) ==
    CASE variant = "csv" -> Trim(r.sym)
      [] variant = "json" -> Field(r.underlying_symbol)
      [] OTHER -> IF Truthy(r.Symbol) THEN Trim(r.Symbol.s) ELSE <<>>

\* The record is an option record (CE or PE after trimming); a sheet row
\* with both cells filled stands for both kinds.
InKind(r) ==
    CASE variant = "csv" -> Trim(r.inst) \in {T_CE, T_PE}
      [] variant = "json" -> Field(r.instrument_type) \in {T_CE, T_PE}
      [] OTHER -> Truthy(r.Symbol) /\ Truthy(r.ExpiryDate)

\* The raw expiry of an input record
RawExpiry(r) ==
    CASE variant = "csv" -> Str(Trim(r.exp))
      [] variant = "json" -> r.expiry
      [] OTHER -> r.ExpiryDate

\* The raw expiry is zero, empty or absent
ZeroOrEmpty(r) == RawExpiry(r) \in {Num(0), Str(<<"0">>), Str(<<>>), Undef}

\* Positions of the option records of symbol s
RecordsOf(s) == {i \in 1..Len(fed) : InKind(fed[i]) /\ InSymbol(fed[i]) = s}

\* The distinct valid expiry dates observed for symbol s
DatesOf(s) == {fed[i].date : i \in RecordsOf(s)} \ {NoDate}

Earliest(S) == CHOOSE d \in S : \A e \in S : e = d \/ DateLess(d, e)

RowsOf(s) == SelectSeq(finalData, LAMBDA r : r.Symbol = s)

NoDataRows(allowed) == [k \in 1..Len(allowed) |-> Row(allowed[k], NO_DATA)]

\* The rows the specification promises for symbol s
ExpectedRows(s) ==
    LET S == DatesOf(s)
    IN  IF S = {} THEN <<Row(s, NO_DATA)>>
        ELSE LET first == Earliest(S)
             IN  IF S = {first} THEN <<Row(s, DMY(first, "-"))>>
                 ELSE <<Row(s, DMY(first, "-")),
                        Row(s, DMY(Earliest(S \ {first}), "-"))>>

C2_TwoEarliestAscending ==
    (Done /\ Structured) =>
        \A s \in AllowedSet :
            Cardinality(DatesOf(s)) >= 2 => RowsOf(s) = ExpectedRows(s)

(***************************************************************************)
(* C3: in a structured feed a symbol without any valid in-scope expiry     *)
(* gets exactly one row, the NO DATA row, and NO DATA never shares a       *)
(* symbol with another row.                                                *)
(***************************************************************************)
C3_NoDataWhenNoValidExpiry ==
    (Done /\ Structured) =>
        \A s \in AllowedSet :
            /\ DatesOf(s) = {} => RowsOf(s) = <<Row(s, NO_DATA)>>
            /\ (\E i \in 1..Len(RowsOf(s)) : RowsOf(s)[i].ExpiryDate = NO_DATA)
                   => Len(RowsOf(s)) = 1

(***************************************************************************)
(* C4 as stated: a header that lacks a required column yields one NO DATA  *)
(* row for every whitelisted symbol.                                       *)
(***************************************************************************)
MissingColumn == variant = "csv" /\ layout \in {"noinst", "nosym", "noexp"}

C5_ZeroOrEmptyNeverADate ==
    (Done /\ \A i \in 1..Len(fed) : ZeroOrEmpty(fed[i])) =>
        \A k \in 1..Len(finalData) : finalData[k].ExpiryDate = NO_DATA

C7_SameDateOneRow ==
    (Done /\ Structured) =>
        \A s \in AllowedSet :
            (/\ RecordsOf(s) # {}
             /\ \A i \in RecordsOf(s) : fed[i].date # NoDate
             /\ Cardinality(DatesOf(s)) = 1)
                => Len(RowsOf(s)) = 1

(***************************************************************************)
(* C8: CE and PE records of one symbol that all carry the same expiry give *)
(* exactly one row for that symbol, with that date; a year-first text or   *)
(* an epoch value is shown as DD-MM-YYYY.                                  *)
(***************************************************************************)
\* Symbol s has CE and PE records and all its option records carry raw
\* expiry e
SameExpiryBothKinds(s, e) ==
    /\ variant \in {"csv", "json"}
    /\ \A i \in RecordsOf(s) : RawExpiry(fed[i]) = e /\ fed[i].date # NoDate
    /\ \E i, j \in RecordsOf(s) :
           IF variant = "csv"
           THEN Trim(fed[i].inst) = T_CE /\ Trim(fed[j].inst) = T_PE
           ELSE /\ Field(fed[i].instrument_type) = T_CE
                /\ Field(fed[j].instrument_type) = T_PE

C8_DedupByDateNotKind ==
    (Done /\ Structured) =>
        \A s \in AllowedSet :
            \A i \in RecordsOf(s) :
                SameExpiryBothKinds(s, RawExpiry(fed[i])) =>
                    /\ Len(RowsOf(s)) = 1
                    /\ RowsOf(s)[1].ExpiryDate
                           \in {DMY(fed[i].date, "-"), ISO(fed[i].date)}
                    /\ (RawExpiry(fed[i]) \in {Str(ISO(fed[i].date)),
                                               Num(LocalMidnight(fed[i].date, tz))})
                           => RowsOf(s) = <<Row(s, DMY(fed[i].date, "-"))>>

\* CE,NIFTY,2025-11-25 and PE,NIFTY,2025-11-25 have been aggregated
C8_Witness ==
    /\ Done /\ variant = "csv" /\ layout = "std"
    /\ fed = <<CsvIn(T_CE, T_NIFTY, ISO(D1), D1), CsvIn(T_PE, T_NIFTY, ISO(D1), D1)>>
    /\ RowsOf(T_NIFTY) =
           <<Row(T_NIFTY, <<"2", "5", "-", "1", "1", "-", "2", "0", "2", "5">>)>>

(***************************************************************************)
(* C9: the handler emits every sheet row with both cells filled exactly    *)
(* twice, as CE then PE with the same trimmed symbol and timestamp, and    *)
(* the aggregation of its answer shows each date of a symbol once: the     *)
(* rows of a symbol are its earliest two distinct dates.                   *)
(***************************************************************************)
\* One of the three credentials is not set in the environment
CredentialAbsent ==
    \E c \in {"SHEET_ID", "CLIENT_EMAIL", "PRIVATE_KEY"} : env[c] = Undef

Accepted == SelectSeq(fed, LAMBDA r : Truthy(r.Symbol) /\ Truthy(r.ExpiryDate))

SheetRead == variant = "sheet" /\ req = T_GET /\ ~CredentialAbsent /\ sheetUp

C10_MissingCredentialNoData ==
    (variant = "sheet" /\ CredentialAbsent) =>
        /\ ~contacted
        /\ (pc \in {"served", "done"} /\ req = T_GET) =>
               res = [status |-> 200, body |-> Arr(<<>>)]
        /\ Done => finalData = NoDataRows(ALLOWED_SYMBOLS_JSON)

\* Only the private key is absent, the sheet holds rows and is reachable
C10_Witness ==
    /\ variant = "sheet" /\ Done /\ sheetUp /\ Len(sheet) >= 1
    /\ Truthy(env.SHEET_ID) /\ Truthy(env.CLIENT_EMAIL) /\ ~Truthy(env.PRIVATE_KEY)
    /\ finalData = NoDataRows(ALLOWED_SYMBOLS_JSON)

(***************************************************************************)
(* C11: the row filter.                                                    *)
(***************************************************************************)
\* The payload of the current variant built from input records recs
RECURSIVE CsvLines(_, _)
CsvLines(l, recs) ==
    IF recs = <<>> THEN <<>>
    ELSE <<"\n">> \o LineText(l, Head(recs)) \o CsvLines(l, Tail(recs))

\* expiryMap after the loop of the aggregator over a feed of records recs
MapOf(recs) ==
    IF variant = "csv"
    THEN csvExpiryMap(HeaderText(layout) \o CsvLines(layout, recs))
    ELSE jsonExpiryMap(Arr([k \in 1..Len(recs) |-> JsonRow(recs[k])]), tz)

\* The record leaves an entry when it is the only record of the feed
Contributes(r) == \E s \in AllowedSet : MapOf(<<r>>)[s] # <<>>

\* The raw expiry is present and non-empty
ExpiryPresent(r) ==
    IF variant = "csv" THEN Trim(r.exp) # <<>>
    ELSE r.expiry \notin {Undef, Null, Str(<<>>)}

\* The raw expiry passes the expiry test of its aggregator: non-empty text
\* in the delimited-text feed; in the JSON feed a number other than 0 or a
\* non-empty text of decimal digits
ExpiryAccepted(r) ==
    IF variant = "csv" THEN Trim(r.exp) # <<>>
    ELSE \/ r.expiry.t = "number" /\ r.expiry.n # 0
         \/ /\ r.expiry.t = "string" /\ r.expiry.s # <<>>
            /\ \A k \in 1..Len(r.expiry.s) : r.expiry.s[k] \in
                   {"0", "1", "2", "3", "4", "5", "6", "7", "8", "9"}

KindAndSymbol(r) == InKind(r) /\ InSymbol(r) \in AllowedSet

Feeding == variant \in {"csv", "json"} /\ Structured /\ fed # <<>>

LastFed == fed[Len(fed)]

C12_UnrealTripleFails ==
    (variant = "norm" /\ ~RealDate(normDate)) =>
        \A n \in normalized : n.key = Num(0) /\ n.text = NO_DATA

(***************************************************************************)
(* C13: the result of a structured feed is the same for every permutation  *)
(* of its data rows, and its symbols come in the declared order of         *)
(* ALLOWED_SYMBOLS, the rows of one symbol next to each other.             *)
(***************************************************************************)
\* The result of the aggregator of the current variant on a feed of recs
AggregateOf(recs) ==
    IF variant = "csv"
    THEN parseCSVAndAggregate(HeaderText(layout) \o CsvLines(layout, recs))
    ELSE parseJSONAndAggregate(Arr([k \in 1..Len(recs) |-> JsonRow(recs[k])]), tz)

\* Position of a symbol in the whitelist
Rank(s) == CHOOSE k \in 1..Len(Allowed) : Allowed[k] = s

\* The feeds whose rows are permuted: in-scope rows of two symbols in both
\* date texts, with repeated dates, under the two complete headers
OrderCsvInputs ==
    { CsvIn(T_CE, T_NIFTY, ISO(D1), D1),
      CsvIn(T_PE, T_NIFTY, ISO(D1), D1),
      CsvIn(T_CE, T_NIFTY, ISO(D3), D3),
      CsvIn(T_PE, T_NIFTY, ISO(D2), D2),
      CsvIn(T_CE, T_NIFTY, DMY(D1, "-"), D1),
      CsvIn(T_CE, T_BANKNIFTY, ISO(D2), D2),
      CsvIn(T_FUT, T_NIFTY, ISO(D4), D4) }

OrderJsonInputs(z) ==
    { JsonIn(Str(T_CE), Str(T_NIFTY), Num(LocalMidnight(D1, z)), D1),
      JsonIn(Str(T_PE), Str(T_NIFTY), Num(LocalMidnight(D1, z) + 930), D1),
      JsonIn(Str(T_CE), Str(T_NIFTY), Num(LocalMidnight(D3, z)), D3),
      JsonIn(Str(T_PE), Str(T_NIFTY),
             Str(NatToString(LocalMidnight(D2, z))), D2),
      JsonIn(Str(T_CE), Str(T_BANKEX), Num(LocalMidnight(D4, z)), D4),
      JsonIn(Str(T_CE), Str(T_NIFTY), Num(0), NoDate) }

InitOrder ==
    /\ Base /\ NoComponent
    /\ \/ InitCsv /\ HeaderComplete(layout)
       \/ InitJson /\ instrumentData = Arr(<<>>)

NextOrder ==
    \/ \E r \in OrderCsvInputs : CsvAppendRow(r)
    \/ CsvAggregate
    \/ \E r \in OrderJsonInputs(tz) : JsonAppendRow(r)
    \/ JsonAggregate

SpecOrder == InitOrder /\ [][NextOrder]_vars

C13_OrderIndependent ==
    (Done /\ variant \in {"csv", "json"} /\ Structured) =>
        /\ \A p \in Permutations(1..Len(fed)) :
               AggregateOf([k \in 1..Len(fed) |-> fed[p[k]]]) = finalData
        /\ \A i, j \in 1..Len(finalData) :
               i < j => Rank(finalData[i].Symbol) <= Rank(finalData[j].Symbol)

\* A feed whose rows come latest date first, two symbols interleaved
C13_Witness ==
    /\ Done /\ variant = "csv" /\ layout = "std"
    /\ fed = <<CsvIn(T_CE, T_NIFTY, ISO(D3), D3),
               CsvIn(T_CE, T_BANKNIFTY, ISO(D2), D2),
               CsvIn(T_CE, T_NIFTY, ISO(D1), D1)>>
    /\ finalData = <<Row(T_NIFTY, DMY(D1, "-")), Row(T_NIFTY, DMY(D3, "-")),
                     Row(T_BANKNIFTY, DMY(D2, "-")),
                     Row(T_SENSEX, NO_DATA), Row(T_FINIFTY, NO_DATA)>>

(***************************************************************************)
(* ExpiryDataFetcher: fetchData and the effect that mounts the timer.      *)
(* A run of fetchData is two steps: the synchronous prefix up to the       *)
(* await of fetch, and the continuation that runs when the response is     *)
(* known (try or catch, then finally).  No state is written between them.  *)
(***************************************************************************)
MaxRuns == 3

T_HTTP == <<"H", "T", "T", "P">>
T_Network == <<"N", "e", "t">>
T_Syntax == <<"S", "y", "n">>
T_Failed == <<"F", "a", "i", "l", "e", "d", ":">>

\* What fetch and the reading of the body come to
Ok(body) == [kind |-> "ok", body |-> body]
HttpError == [kind |-> "http", body |-> <<>>]
NetworkError == [kind |-> "network", body |-> <<>>]
DecodeError == [kind |-> "decode", body |-> <<>>]

CsvBodies ==
    { HeaderText("std") \o CsvLines("std", <<CsvIn(T_CE, T_NIFTY, ISO(d), d)>>) :
          d \in {D1, D2} }

JsonBodies(z) ==
    { Arr(<<JsonRow(JsonIn(Str(T_CE), Str(T_NIFTY),
                           Num(LocalMidnight(d, z)), d))>>) : d \in {D1, D2} }

Responses ==
    IF variant = "csv"
    THEN {Ok(b) : b \in CsvBodies} \cup {HttpError, NetworkError}
    ELSE {Ok(b) : b \in JsonBodies(tz)} \cup {HttpError, NetworkError, DecodeError}

\* e.message of the error thrown in the try block
Message(response) ==
    CASE response.kind = "http" -> T_HTTP
      [] response.kind = "network" -> T_Network
      [] response.kind = "decode" -> T_Syntax

\* new Date(): a logical clock that advances with every continuation
Now == Num(Len(completed) + 1)

\* The four pieces of state fetchData writes, and the local finalData of
\* the run, undefined until the try block assigns it
Hooks == [data |-> data, loading |-> loading, error |-> error,
          lastRefreshTime |-> lastRefreshTime, finalData |-> Undef]

\* setLoading(true); setError(null)
Begin(h) == [h EXCEPT !.loading = TRUE, !.error = Null]

\* The catch block of the JSON variant without the two clearing setters
JsonCatchRetain(response, h) ==
    [h EXCEPT !.error = Str(T_Failed \o Message(response))]

\* catch (e): setError(errorMessage); setData(null); setLastRefreshTime(null)
JsonCatch(response, h) ==
    [h EXCEPT !.error = Str(T_Failed \o Message(response)),
              !.data = Null, !.lastRefreshTime = Null]

\* The catch block of the delimited-text variant clearing the result as well
CsvCatchClear(response, h) ==
    [h EXCEPT !.error = Str(Message(response)), !.data = Null,
              !.lastRefreshTime = Null]

\* catch (e): setError(e.message)
CsvCatch(response, h) == [h EXCEPT !.error = Str(Message(response))]

\* const finalData = parseCSVAndAggregate(csvText);
\* setData(finalData); setLastRefreshTime(new Date())
CsvTry(response, h, now) ==
    LET finalDataL == Arr(parseCSVAndAggregate(response.body))
    IN  [h EXCEPT !.finalData = finalDataL, !.data = finalDataL,
                  !.lastRefreshTime = now]

\* The try block storing a result only when none is stored
JsonTryFirst(response, h, now, z) ==
    LET finalDataL == Arr(parseJSONAndAggregate(response.body, z))
    IN  IF h.data # Null THEN [h EXCEPT !.finalData = finalDataL, !.error = Null]
        ELSE [h EXCEPT !.finalData = finalDataL, !.data = finalDataL,
                       !.lastRefreshTime = now, !.error = Null]

\* const finalData = parseJSONAndAggregate(instrumentData);
\* setData(finalData); setLastRefreshTime(new Date()); setError(null)
JsonTry(response, h, now, z) ==
    LET finalDataL == Arr(parseJSONAndAggregate(response.body, z))
    IN  [h EXCEPT !.finalData = finalDataL, !.data = finalDataL,
                  !.lastRefreshTime = now, !.error = Null]

\* finally: setLoading(false)
Finally(h) == [h EXCEPT !.loading = FALSE]

\* The continuation of fetchData once the response is known
Continue(response, h, now, z) ==
    Finally(IF variant = "csv"
            THEN IF response.kind = "ok" THEN CsvTry(response, h, now)
                 ELSE CsvCatch(response, h)
            ELSE IF response.kind = "ok" THEN JsonTry(response, h, now, z)
                 ELSE JsonCatch(response, h))

SetHooks(h) ==
    /\ data' = h.data /\ loading' = h.loading /\ error' = h.error
    /\ lastRefreshTime' = h.lastRefreshTime

\* fetchData() up to the await of fetch
FetchStart(trigger) ==
    /\ Len(runs) < MaxRuns
    /\ SetHooks(Begin(Hooks))
    /\ runs' = Append(runs, [trigger |-> trigger, status |-> "inflight",
                             response |-> Undef, finalData |-> Undef,
                             after |-> Len(completed)])
    /\ UNCHANGED completed

\* useEffect on mount: fetchData(); setInterval(..., 60000)
Mount ==
    /\ lifecycle = "new"
    /\ lifecycle' = "mounted" /\ timerOn' = TRUE
    /\ FetchStart("mount")
    /\ UNCHANGED <<variant, tz, feed>>

\* The interval callback: fetchData()
TimerTick ==
    /\ timerOn
    /\ FetchStart("timer")
    /\ UNCHANGED <<variant, tz, feed, lifecycle, timerOn>>

\* The button: onClick={fetchData} disabled={loading}
ManualClick ==
    /\ lifecycle = "mounted" /\ ~loading
    /\ FetchStart("manual")
    /\ UNCHANGED <<variant, tz, feed, lifecycle, timerOn>>

\* The continuation of run i: try or catch, then finally
Settle(i, response) ==
    /\ i \in 1..Len(runs) /\ runs[i].status = "inflight"
    /\ LET h == Continue(response, Hooks, Now, tz)
       IN  /\ SetHooks(h)
           /\ runs' = [runs EXCEPT
                          ![i].status =
                              IF response.kind = "ok" THEN "ok" ELSE "failed",
                          ![i].response = response,
                          ![i].finalData = h.finalData]
    /\ completed' = Append(completed, i)
    /\ UNCHANGED <<variant, tz, feed, lifecycle, timerOn>>

\* The cleanup of the effect: clearInterval(intervalId)
Unmount ==
    /\ lifecycle = "mounted"
    /\ lifecycle' = "unmounted" /\ timerOn' = FALSE
    /\ UNCHANGED <<variant, tz, feed, data, loading, error, lastRefreshTime,
                   runs, completed>>

InitUI ==
    /\ Base
    /\ \/ variant = "csv" /\ tz = 0 /\ lastRefreshTime = Num(0)
       \/ variant = "json" /\ tz \in {0, 330} /\ lastRefreshTime = Null
    /\ layout = "none" /\ csvText = <<>> /\ instrumentData = Undef
    /\ env = NoEnv /\ sheet = <<>> /\ sheetUp = FALSE /\ normDate = NoDate
    /\ lifecycle = "new" /\ timerOn = FALSE
    /\ data = Null /\ loading = FALSE /\ error = Null
    /\ runs = <<>> /\ completed = <<>>

NextUI ==
    \/ Mount
    \/ TimerTick
    \/ ManualClick
    \/ \E i \in 1..MaxRuns : \E response \in Responses : Settle(i, response)
    \/ Unmount

SpecUI == InitUI /\ [][NextUI]_vars

(***************************************************************************)
(* Properties of the component.                                            *)
(***************************************************************************)
Runs == 1..Len(runs)

InFlight == {i \in Runs : runs[i].status = "inflight"}

\* Run i takes its continuation in this step, with a failure or a success
Fails(i) == i \in Runs /\ runs[i].status = "inflight" /\ runs'[i].status = "failed"

Succeeds(i) == i \in Runs /\ runs[i].status = "inflight" /\ runs'[i].status = "ok"

\* C14: in the delimited-text variant a run that ends in a transport failure
\* (non-ok response or network error) does not run the aggregation, sets
\* error to a non-null message and leaves data and lastRefreshTime as they
\* were.
C14_CsvFailureKeepsResult ==
    [][\A i \in Runs :
           (variant = "csv" /\ Fails(i)) =>
               /\ runs'[i].response.kind \in {"http", "network"}
               /\ runs'[i].finalData = Undef
               /\ error' # Null
               /\ data' = data /\ lastRefreshTime' = lastRefreshTime]_vars

\* A failure after a success: the earlier result and its time are still stored
C14_Witness ==
    /\ variant = "csv" /\ Len(completed) = 2
    /\ runs[completed[1]].status = "ok"
    /\ runs[completed[2]].status = "failed"
    /\ runs[completed[2]].after = 1
    /\ data = runs[completed[1]].finalData /\ data # Null
    /\ lastRefreshTime = Num(1)
    /\ error = Str(T_HTTP)

\* The place of a completed run in the order of completion
Pos(i) == CHOOSE k \in 1..Len(completed) : completed[k] = i

IsCompleted(i) == \E k \in 1..Len(completed) : completed[k] = i

\* Two completed runs overlapped: the later started one started before the
\* earlier started one completed
Overlapped(i, j) ==
    LET a == IF i < j THEN i ELSE j
        b == IF i < j THEN j ELSE i
    IN  i # j /\ runs[b].after < Pos(a)

\* What the aggregation makes of the body of a response
ResultOf(response) ==
    IF variant = "csv" THEN Arr(parseCSVAndAggregate(response.body))
    ELSE Arr(parseJSONAndAggregate(response.body, tz))

\* C15: when two runs of fetchData overlap and both succeed, the result
\* stored once both have completed is that of the run whose response
\* completed last, whichever of the two started first.
C15_LastCompleterWins ==
    \A i, j \in Runs :
        (/\ runs[i].status = "ok" /\ runs[j].status = "ok"
         /\ Overlapped(i, j)
         /\ Pos(i) < Pos(j) /\ Pos(j) = Len(completed)) =>
            data = ResultOf(runs[j].response)

\* A timer run starts while a manual run is in flight and completes first
\* with another result: the manual run's result is the one stored
C15_Witness ==
    /\ Len(runs) = 3 /\ completed = <<1, 3, 2>>
    /\ runs[2].trigger = "manual" /\ runs[3].trigger = "timer"
    /\ runs[2].status = "ok" /\ runs[3].status = "ok"
    /\ Overlapped(2, 3)
    /\ ResultOf(runs[2].response) # ResultOf(runs[3].response)
    /\ data = ResultOf(runs[2].response)

\* C16: in the JSON-array variant a run that ends in a transport or decode
\* failure sets error to a non-null message and clears data and
\* lastRefreshTime; so after every continuation, data being non-null implies
\* that error is null.
C16_JsonFailureClearsResult ==
    [][variant = "json" =>
           /\ \A i \in Runs :
                  Fails(i) =>
                      /\ error' # Null
                      /\ data' = Null /\ lastRefreshTime' = Null
           /\ data' # Null => error' = Null]_vars

\* A decode failure after a success: the stored result is gone
C16_Witness ==
    /\ variant = "json" /\ completed = <<1, 2>>
    /\ runs[1].status = "ok" /\ runs[1].finalData # Null
    /\ runs[2].status = "failed" /\ runs[2].response = DecodeError
    /\ runs[2].after = 1
    /\ data = Null /\ lastRefreshTime = Null
    /\ error = Str(T_Failed \o T_Syntax)

C18_LoadingAccurate ==
    lifecycle # "new" => (loading <=> InFlight # {})

\* The run that completed last
LastCompleted == completed[Len(completed)]

\* C19: in the delimited-text variant, whenever no run is in flight and the
\* run that completed last succeeded, its result is the stored data and
\* error is null: no stale error message next to a fresher result.
C19_NoStaleError ==
    (/\ variant = "csv" /\ InFlight = {} /\ completed # <<>>
     /\ runs[LastCompleted].status = "ok") =>
        /\ data = ResultOf(runs[LastCompleted].response)
        /\ error = Null

====
